---- MODULE Spec2Model ----
(***************************************************************************)
(* Stacked denoising auto-encoder (SdA) of ml-poster.                      *)
(*                                                                         *)
(* Two programs are modelled: code/SdADenoising.py (variant "main") and    *)
(* code/SdADenoisingPlot.py (variant "plot").  Both define the class SdA   *)
(* (identical in the two files) and a driver test_SdA.                     *)
(*                                                                         *)
(*   Spec     one run of test_SdA, of either file                          *)
(*   SpecSdA  the class SdA used directly: construction with any           *)
(*            arguments, then pretraining steps, fine-tuning steps and     *)
(*            denoise evaluations in any order                             *)
(*                                                                         *)
(* Abstractions.  A Theano symbolic expression is a chain: a sequence of   *)
(* nodes, the first an input variable, each later one a layer applied to   *)
(* the value before it.  A shared variable (a parameter) is an index into  *)
(* the store sda.shared; its value is [origin, ver]: the initial value     *)
(* drawn for variable `origin`, after `ver` gradient updates.  A mean cost *)
(* is a number of thousandths.  A learning rate is an exact                *)
(* fraction [num, den].  The list layer_cost is kept as its length and its *)
(* last two elements, which is all the code reads of it.                   *)
(***************************************************************************)
EXTENDS Integers, Sequences, FiniteSets, TLC

VARIABLES
    sda,                \* the object bound to `sda`: the stack and its parameter store
    train_set_x,        \* theano.shared(clean_patches_f): one value per patch
    train_set_x_noise,  \* theano.shared(noisy_patches_f)
    batch_size,
    lastPretrain,       \* the last call of a pretraining function, and how many were made
    lastFinetune,       \* the last call of train_fn, and how many were made
    lastDenoise,        \* the last evaluation of the denoise graph
    variant,            \* "main" | "plot" | "direct"
    cfg,                \* the arguments of test_SdA and the size of the dataset
    path,               \* the local `path` of test_SdA: where the stack is stored
    pc,                 \* position in test_SdA
    i, epoch, batch_index,
    n_train_batches,
    pretrain_lr,        \* the local pretrain_lr (the plot variant assigns to it)
    layer_cost,         \* [len, last, prev] of the list layer_cost
    layers_cost,        \* len(layers_cost), or -1 while the name is unbound
    finetune_costs,     \* len(finetune_costs), or -1 while the name is unbound
    isTrained,
    file,               \* the file at `path`: [exists, data]
    train_fn,           \* the compiled fine-tuning function: [built, lr]
    preCount,           \* per layer, the number of pretraining calls made
    usedPatches,        \* indexes of the patches some gradient step has read
    phases,             \* the phases of the run, in the order they were entered
    dsIdx,              \* loop index over noisy_datasets
    noisy_datasets,     \* the noisy image datasets loadDatasets returned
    d,                  \* the result of the last filterImagesSdA
    images,             \* what saveImage was called with, in order
    prevRun             \* the run of test_SdA before this one: [n, path, file]

sdaVars == <<sda, train_set_x, train_set_x_noise, batch_size,
             lastPretrain, lastFinetune, lastDenoise>>
runVars == <<variant, cfg, path, pc, i, epoch, batch_index, n_train_batches,
             pretrain_lr, layer_cost, layers_cost, finetune_costs, isTrained,
             file, train_fn, preCount, usedPatches, phases, dsIdx, noisy_datasets,
             d, images, prevRun>>
vars == <<sdaVars, runVars>>

-----------------------------------------------------------------------------
(* Bounds of the model *)

MaxLayers == 2          \* len(hidden_layers_fraction) ranges over 0..MaxLayers
MaxPatches == 3         \* number of training patches ranges over 0..MaxPatches
MaxBatchSize == 2       \* batch_size is 1 or MaxBatchSize
MaxTrainEpochs == 2     \* training_epochs is 0 or MaxTrainEpochs
MaxPeriods == 2         \* pretraining_epochs reaches MaxPeriods * EpochPeriod + 1
MaxDirectSteps == 3     \* calls made on a directly used SdA

(* Program constants *)

EpochPeriod == 100      \* epoch % 100 == 0
CostThreshold == 10     \* 0.01, in thousandths
NDatasets == 2          \* len(dataset_base) of the main variant

Costs == {0, 5, 10}     \* mean costs an epoch may yield, in thousandths

Rate(n, dn) == [num |-> n, den |-> dn]
PretrainLrs == {Rate(1, 2)}
FinetuneLrs == {Rate(1, 10)}
PatchValues == {0, 1}
DefaultCorruption == Rate(1, 10)
ZeroCorruption == Rate(0, 1)
patch_size == <<4, 4>>
DefaultFraction == Rate(1, 2)

Min(a, b) == IF a < b THEN a ELSE b
Range(s) == {s[k] : k \in DOMAIN s}
Last(s) == s[Len(s)]

-----------------------------------------------------------------------------
(* Symbolic expressions and the parameter store *)

Node(op, W, b) == [op |-> op, W |-> W, b |-> b]

x_sym == <<Node("x", 0, 0)>>
noise_x_sym == <<Node("noise_x", 0, 0)>>
patch_sym == <<Node("patch", 0, 0)>>

\* theano.shared(...) of a freshly drawn value: a new variable in the store
NewShared(shared) == Append(shared, [origin |-> Len(shared) + 1, ver |-> 0])

\* mlp.HiddenLayer(rng, input, n_in, n_out, activation=sigmoid): creates W and b;
\* output = sigmoid(dot(input, W) + b)
HiddenLayer(shared, input, n_in, n_out) ==
    LET W == Len(shared) + 1
        b == Len(shared) + 2
    IN  [obj |-> [W |-> W, b |-> b, input |-> input,
                  output |-> Append(input, Node("sigmoid", W, b)),
                  params |-> <<W, b>>, n_in |-> n_in, n_out |-> n_out],
         shared |-> NewShared(NewShared(shared))]

\* ImageDenoising.dA(..., input, noiseInput, n_visible, n_hidden, W, bhid):
\* a weight or hidden bias that is not given (0) is created; the visible bias
\* b_prime is always created; params = [W, b, b_prime]
dA(shared, input, noiseInput, n_visible, n_hidden, W, bhid) ==
    LET s1 == IF W = 0 THEN NewShared(shared) ELSE shared
        Wd == IF W = 0 THEN Len(s1) ELSE W
        s2 == NewShared(s1)
        bvis == Len(s2)
        s3 == IF bhid = 0 THEN NewShared(s2) ELSE s2
        bh == IF bhid = 0 THEN Len(s3) ELSE bhid
    IN  [obj |-> [W |-> Wd, b |-> bh, b_prime |-> bvis,
                  x |-> input, noise_x |-> noiseInput,
                  params |-> <<Wd, bh, bvis>>,
                  n_visible |-> n_visible, n_hidden |-> n_hidden],
         shared |-> s3]

\* dA.get_hidden_values(input) = sigmoid(dot(input, W) + b)
get_hidden_values(da, input) == Append(input, Node("sigmoid", da.W, da.b))

\* logistic_sgd.LogisticRegression(input, n_in, n_out): creates W and b
LogisticRegression(shared, input, n_in, n_out) ==
    LET W == Len(shared) + 1
        b == Len(shared) + 2
    IN  [obj |-> [made |-> TRUE, W |-> W, b |-> b, input |-> input,
                  params |-> <<W, b>>, n_in |-> n_in, n_out |-> n_out],
         shared |-> NewShared(NewShared(shared))]

\* LogisticRegression.get_denoised_patch_function(x): the regression output for x
RegressionOutput(logLayer, input) ==
    Append(input, Node("regress", logLayer.W, logLayer.b))

\* LogisticRegression.cost_function(x): the regression output for the layer's
\* own input, compared with the target x
cost_function(logLayer, target) ==
    [pred |-> RegressionOutput(logLayer, logLayer.input), target |-> target]

NoLogLayer ==
    [made |-> FALSE, W |-> 0, b |-> 0, input |-> <<>>, params |-> <<>>,
     n_in |-> 0, n_out |-> 0]
NoCost == [pred |-> <<>>, target |-> <<>>]

\* the value of a chain: the given input's value and, for every layer applied,
\* the values of the parameters it reads at the time of evaluation
Eval(chain, givens, shared) ==
    [base |-> givens[chain[1].op],
     through |-> [k \in 1..(Len(chain) - 1) |->
                    [op |-> chain[k + 1].op,
                     W |-> shared[chain[k + 1].W],
                     b |-> shared[chain[k + 1].b]]]]

\* a[begin:end] of Python
Slice(a, begin, end) == SubSeq(a, begin + 1, Min(end, Len(a)))

-----------------------------------------------------------------------------
(* class SdA *)

UnboundSdA ==
    [state |-> "unbound", sigmoid_noise_layers |-> <<>>, dA_layers |-> <<>>,
     params |-> <<>>, n_layers |-> 0, hidden_layers_sizes |-> <<>>,
     n_ins |-> 0, n_outs |-> 0, corruption_levels |-> <<>>,
     logLayer |-> NoLogLayer, finetune_cost |-> NoCost, shared |-> <<>>]

AssertNLayers_NonNegative(n) == n >= 0

\* assert self.n_layers > 0
AssertNLayers(n) == n > 0

\* SdA.__init__ up to the assertion
SdAFields(n_ins, hidden_layers_sizes, n_outs, corruption_levels) ==
    [UnboundSdA EXCEPT
        !.n_layers = Len(hidden_layers_sizes),
        !.hidden_layers_sizes = hidden_layers_sizes,
        !.n_ins = n_ins, !.n_outs = n_outs,
        !.corruption_levels = corruption_levels,
        !.state = IF AssertNLayers(Len(hidden_layers_sizes))
                  THEN "layers" ELSE "AssertionError"]

\* for ddAA in self.dA_layers: layer_input = ddAA.get_hidden_values(layer_input)
RECURSIVE HiddenThrough(_, _, _)
HiddenThrough(das, k, input) ==
    IF k > Len(das) THEN input
    ELSE HiddenThrough(das, k + 1, get_hidden_values(das[k], input))

DAWeightArg_None(layer) == 0

\* W=sigmoid_noise_layer.W
DAWeightArg(layer) == layer.W

\* bhid=sigmoid_noise_layer.b
DABiasArg(layer) == layer.b

SdALayer_TargetFromNoisyPath(self) ==
    LET li == Len(self.dA_layers)
        input_size == IF li = 0 THEN self.n_ins
                      ELSE self.hidden_layers_sizes[li]
        layer_input == IF li = 0 THEN x_sym
                       ELSE Last(self.sigmoid_noise_layers).output
        layer_noise_input == IF li = 0 THEN noise_x_sym
                             ELSE Last(self.sigmoid_noise_layers).output
        h == HiddenLayer(self.shared, layer_noise_input, input_size,
                         self.hidden_layers_sizes[li + 1])
        a == dA(h.shared, layer_input, layer_noise_input, input_size,
                self.hidden_layers_sizes[li + 1],
                DAWeightArg(h.obj), DABiasArg(h.obj))
    IN  [self EXCEPT
            !.sigmoid_noise_layers = Append(@, h.obj),
            !.params = @ \o h.obj.params,
            !.dA_layers = Append(@, a.obj),
            !.shared = a.shared]

\* one iteration of `for i in range(self.n_layers)` of SdA.__init__
SdALayer(self) ==
    LET li == Len(self.dA_layers)
        input_size == IF li = 0 THEN self.n_ins
                      ELSE self.hidden_layers_sizes[li]
        layer_input == IF li = 0 THEN x_sym
                       ELSE HiddenThrough(self.dA_layers, 1, x_sym)
        layer_noise_input == IF li = 0 THEN noise_x_sym
                             ELSE Last(self.sigmoid_noise_layers).output
        h == HiddenLayer(self.shared, layer_noise_input, input_size,
                         self.hidden_layers_sizes[li + 1])
        a == dA(h.shared, layer_input, layer_noise_input, input_size,
                self.hidden_layers_sizes[li + 1],
                DAWeightArg(h.obj), DABiasArg(h.obj))
    IN  [self EXCEPT
            !.sigmoid_noise_layers = Append(@, h.obj),
            !.params = @ \o h.obj.params,
            !.dA_layers = Append(@, a.obj),
            !.shared = a.shared]

\* the end of SdA.__init__: the regression layer on the last noisy-path output
SdALogLayer(self) ==
    IF self.sigmoid_noise_layers = <<>>
    THEN [self EXCEPT !.state = "IndexError"]
    ELSE LET l == LogisticRegression(self.shared,
                      Last(self.sigmoid_noise_layers).output,
                      Last(self.hidden_layers_sizes), self.n_outs)
         IN  [self EXCEPT
                !.logLayer = l.obj,
                !.params = @ \o l.obj.params,
                !.finetune_cost = cost_function(l.obj, x_sym),
                !.shared = l.shared,
                !.state = "ready"]

\* the parameters a gradient step updates: each gets one more update
Updated(self, ids) ==
    [self EXCEPT !.shared =
        [k \in DOMAIN @ |-> IF k \in ids THEN [@[k] EXCEPT !.ver = @ + 1]
                            ELSE @[k]]]

PretrainUpdate_WholeStack(self, li) == Updated(self, DOMAIN self.shared)

\* pretraining_functions()[li]: updates = dA.get_cost_updates(learning_rate),
\* a gradient step on the parameters of the li-th autoencoder
PretrainUpdate(self, li) == Updated(self, Range(self.dA_layers[li + 1].params))

FinetuneUpdate_LayersOnly(self) ==
    Updated(self, Range(self.params) \ Range(self.logLayer.params))

\* build_finetune_functions: updates = [(param, param - gparam * learning_rate)
\* for param, gparam in zip(self.params, gparams)]
FinetuneUpdate(self) == Updated(self, Range(self.params))

GetDenoisedPatch_NoRegression(self, patch) ==
    HiddenThrough(self.dA_layers, 1, patch)

\* SdA.get_denoised_patch_function(patch)
get_denoised_patch_function(self, patch) ==
    RegressionOutput(self.logLayer, HiddenThrough(self.dA_layers, 1, patch))

-----------------------------------------------------------------------------
(* givens of a compiled training function *)

\* givens={self.x: train_set_x[begin:end], self.noise_x: train_set_x_noise[begin:end]}
Givens(index, bs) ==
    [x |-> Slice(train_set_x, index * bs, (index + 1) * bs),
     noise_x |-> Slice(train_set_x_noise, index * bs, (index + 1) * bs)]

\* the patches the slice [index * bs : (index + 1) * bs] reads
SliceIndexes(index, bs) ==
    {k \in (index * bs)..((index + 1) * bs - 1) : k < Len(train_set_x)}

NoValue == [base |-> <<>>, through |-> <<>>]
NoCall == [layer |-> 0, epoch |-> 0, index |-> 0, lr |-> Rate(0, 1)]
NoCosts == [len |-> 0, last |-> 0, prev |-> 0]

\* the record of a pretraining call: its arguments, those of the call before it
\* (prev), the recorded costs at the time of the call, and the inputs the
\* autoencoder was given
NoPretrain ==
    [n |-> 0, layer |-> 0, epoch |-> 0, index |-> 0, lr |-> Rate(0, 1),
     prev |-> NoCall, costs |-> NoCosts,
     clean_in |-> NoValue, noisy_in |-> NoValue]
NoFinetune ==
    [n |-> 0, epoch |-> 0, index |-> 0, lr |-> Rate(0, 1),
     prev |-> [epoch |-> 0, index |-> 0]]
NoDenoise ==
    [n |-> 0, patch |-> 0, out |-> [base |-> 0, through |-> <<>>],
     shared |-> <<>>, chain |-> <<>>]

\* pretraining_fns[li](index=index, lr=lr), at epoch ep of the caller's loop
PretrainCall(li, ep, index, lr, bs) ==
    /\ sda' = PretrainUpdate(sda, li)
    /\ lastPretrain' =
          [n |-> lastPretrain.n + 1, layer |-> li, epoch |-> ep, index |-> index,
           lr |-> lr,
           prev |-> [layer |-> lastPretrain.layer, epoch |-> lastPretrain.epoch,
                     index |-> lastPretrain.index, lr |-> lastPretrain.lr],
           costs |-> layer_cost,
           clean_in |-> Eval(sda.dA_layers[li + 1].x, Givens(index, bs), sda.shared),
           noisy_in |-> Eval(sda.dA_layers[li + 1].noise_x, Givens(index, bs),
                             sda.shared)]

\* train_fn(index), train_fn compiled with learning rate lr, at epoch ep
FinetuneCall(ep, index, lr) ==
    /\ sda' = FinetuneUpdate(sda)
    /\ lastFinetune' =
          [n |-> lastFinetune.n + 1, epoch |-> ep, index |-> index, lr |-> lr,
           prev |-> [epoch |-> lastFinetune.epoch, index |-> lastFinetune.index]]

\* theano.function([x], sda.get_denoised_patch_function(x)) evaluated on data
Denoise(self, data) ==
    Eval(get_denoised_patch_function(self, patch_sym), [patch |-> data],
         self.shared)

-----------------------------------------------------------------------------
(* Construction of an SdA, step by step (both specifications) *)

ConstructLayer ==
    /\ pc \in {"build", "direct"}
    /\ sda.state = "layers"
    /\ Len(sda.dA_layers) < sda.n_layers
    /\ sda' = SdALayer(sda)
    /\ UNCHANGED <<train_set_x, train_set_x_noise, batch_size, lastPretrain,
                   lastFinetune, lastDenoise, runVars>>

ConstructLogLayer ==
    /\ pc \in {"build", "direct"}
    /\ sda.state = "layers"
    /\ Len(sda.dA_layers) >= sda.n_layers
    /\ sda' = SdALogLayer(sda)
    /\ UNCHANGED <<train_set_x, train_set_x_noise, batch_size, lastPretrain,
                   lastFinetune, lastDenoise, runVars>>

-----------------------------------------------------------------------------
(* The class SdA used directly *)

NIns == patch_size[1] * patch_size[2]

\* int(f * Width * Height)
HiddenSize(f) == (f.num * NIns) \div f.den

DirectCalls == lastPretrain.n + lastFinetune.n + lastDenoise.n

\* SdA(numpy_rng, n_ins, hidden_layers_sizes, n_outs, corruption_levels)
DirectNew ==
    /\ pc = "direct"
    /\ sda.state = "unbound"
    /\ \E n \in 0..MaxLayers, cl \in {ZeroCorruption, DefaultCorruption} :
          sda' = SdAFields(NIns, [k \in 1..n |-> HiddenSize(DefaultFraction)],
                           NIns, [k \in 1..n |-> cl])
    /\ UNCHANGED <<train_set_x, train_set_x_noise, batch_size, lastPretrain,
                   lastFinetune, lastDenoise, runVars>>

DirectPretrain ==
    /\ pc = "direct"
    /\ sda.state = "ready"
    /\ DirectCalls < MaxDirectSteps
    /\ \E li \in 0..(sda.n_layers - 1),
          index \in 0..((Len(train_set_x) \div batch_size) - 1),
          lr \in PretrainLrs :
          PretrainCall(li, 0, index, lr, batch_size)
    /\ UNCHANGED <<train_set_x, train_set_x_noise, batch_size, lastFinetune,
                   lastDenoise, runVars>>

DirectFinetune ==
    /\ pc = "direct"
    /\ sda.state = "ready"
    /\ DirectCalls < MaxDirectSteps
    /\ \E index \in 0..((Len(train_set_x) \div batch_size) - 1),
          lr \in FinetuneLrs :
          FinetuneCall(0, index, lr)
    /\ UNCHANGED <<train_set_x, train_set_x_noise, batch_size, lastPretrain,
                   lastDenoise, runVars>>

DirectDenoise ==
    /\ pc = "direct"
    /\ sda.state = "ready"
    /\ DirectCalls < MaxDirectSteps
    /\ \E p \in PatchValues :
          lastDenoise' =
            [n |-> lastDenoise.n + 1, patch |-> p,
             out |-> Denoise(sda, p), shared |-> sda.shared,
             chain |-> get_denoised_patch_function(sda, patch_sym)]
    /\ UNCHANGED <<sda, train_set_x, train_set_x_noise, batch_size, lastPretrain,
                   lastFinetune, runVars>>

NoFile == [exists |-> FALSE, data |-> UnboundSdA]
NoCfg ==
    [finetune_lr |-> Rate(0, 1), pretraining_epochs |-> 0,
     pretrain_lr |-> Rate(0, 1), training_epochs |-> 0,
     hidden_layers_fraction |-> <<>>, batch_size |-> 0, n_patches |-> 0,
     noise_dataset_samples |-> 0]
NoPath == ""
NoPrevRun == [n |-> 0, path |-> NoPath, file |-> NoFile]
NoDataset == [c \in {"r", "g", "b"} |-> [data |-> <<>>]]

RunIdle(v, c, f) ==
    /\ variant = v
    /\ cfg = c
    /\ prevRun = NoPrevRun
    /\ path = NoPath
    /\ file = f
    /\ i = 0 /\ epoch = 0 /\ batch_index = 0 /\ n_train_batches = 0
    /\ pretrain_lr = c.pretrain_lr
    /\ layer_cost = NoCosts
    /\ layers_cost = -1 /\ finetune_costs = -1
    /\ isTrained = FALSE
    /\ train_fn = [built |-> FALSE, lr |-> Rate(0, 1)]
    /\ preCount = <<>>
    /\ usedPatches = {}
    /\ phases = <<>>
    /\ dsIdx = 0
    /\ noisy_datasets = <<>>
    /\ d = NoDataset
    /\ images = <<>>

InitSdA ==
    /\ pc = "direct"
    /\ sda = UnboundSdA
    /\ \E n \in {1, 2} :
          /\ train_set_x \in [1..n -> PatchValues]
          /\ train_set_x_noise \in [1..n -> PatchValues]
    /\ batch_size = 1
    /\ lastPretrain = NoPretrain
    /\ lastFinetune = NoFinetune
    /\ lastDenoise = NoDenoise
    /\ RunIdle("direct", NoCfg, NoFile)

NextSdA ==
    \/ DirectNew
    \/ ConstructLayer
    \/ ConstructLogLayer
    \/ DirectPretrain
    \/ DirectFinetune
    \/ DirectDenoise

SpecSdA == InitSdA /\ [][NextSdA]_vars

-----------------------------------------------------------------------------
(* test_SdA *)

\* hidden_layers_sizes = [int(f * Width * Height) for f in hidden_layers_fraction]
hidden_layers_sizes == [k \in DOMAIN cfg.hidden_layers_fraction |->
                          HiddenSize(cfg.hidden_layers_fraction[k])]

NTrainBatches_Ceil(n, bs) == (n + bs - 1) \div bs

\* n_train_batches = shape[0]; n_train_batches //= batch_size
NTrainBatches(n, bs) == n \div bs

AddPhase(p) ==
    phases' = IF phases # <<>> /\ Last(phases) = p THEN phases
              ELSE Append(phases, p)

\* noise_dataset_samples = 20 (SdADenoising.py), = 5 (SdADenoisingPlot.py)
DefaultSamples(v) == IF v = "main" THEN 20 ELSE 5

\* the digits of f thousandths after the decimal point, trailing zeros dropped
FractionDigits(f) ==
    IF f = 0 THEN "0"
    ELSE IF f % 100 = 0 THEN ToString(f \div 100)
    ELSE IF f % 10 = 0 THEN ToString(f \div 100) \o ToString((f \div 10) % 10)
    ELSE ToString(f \div 100) \o ToString((f \div 10) % 10) \o ToString(f % 10)

\* str(x) of a Python 2 float x that is a whole number of thousandths: '0.01',
\* '0.5', '1.0'
StrFloat(r) ==
    LET t == (r.num * 1000) \div r.den
    IN  ToString(t \div 1000) \o "." \o FractionDigits(t % 1000)

\* layers_string: "_" + str(idx) + "L" + str(hidden_layers_sizes[idx]) for every idx
RECURSIVE LayersString(_, _)
LayersString(sizes, idx) ==
    IF idx >= Len(sizes) THEN ""
    ELSE "_" \o ToString(idx) \o "L" \o ToString(sizes[idx + 1])
             \o LayersString(sizes, idx + 1)

\* the batch size test_SdA trains with: its argument in SdADenoising.py,
\* clean_patches_f.shape[0] // 2 in SdADenoisingPlot.py
BatchSizeOf(v, c) == IF v = "main" THEN c.batch_size ELSE c.n_patches \div 2

\* parameters_name
ParametersName(v, c) ==
    "_SdA_pretrain" \o ToString(c.pretraining_epochs)
        \o "_tuning" \o ToString(c.training_epochs)
        \o LayersString([k \in DOMAIN c.hidden_layers_fraction |->
                            HiddenSize(c.hidden_layers_fraction[k])], 0)
        \o "_tunerate" \o StrFloat(c.finetune_lr)
        \o "_pretrainrate" \o StrFloat(c.pretrain_lr)
        \o "_W" \o ToString(patch_size[1])
        \o (IF v = "main" THEN "_batchsize" ELSE "_minibatch")
        \o ToString(BatchSizeOf(v, c))

\* the names loadDatasets is called with: dataset_names and noise_dataset_names
\* (SdADenoising.py), dataset_name and noise_dataset_name (SdADenoisingPlot.py)
DatasetNames(v, c) ==
    IF v = "main"
    THEN [clean |-> <<"sponzat_0_10000", "sponzat_1_10000">>,
          noisy |-> <<"sponzat_0_" \o ToString(c.noise_dataset_samples),
                      "sponzat_1_" \o ToString(c.noise_dataset_samples)>>]
    ELSE [clean |-> <<"sponzat_0_10000">>,
          noisy |-> <<"sponzat_0_" \o ToString(c.noise_dataset_samples)>>]

\* path = "training/trained_variables_" + noise_dataset_common_name
\*        + parameters_name + ".dat", noise_dataset_common_name being
\* "_".join(dataset_base); SdADenoisingPlot.py puts noise_dataset_name there
Path(v, c) ==
    "training/trained_variables_"
        \o (IF v = "main" THEN "sponzat_0_sponzat_1" ELSE DatasetNames(v, c).noisy[1])
        \o ParametersName(v, c) \o ".dat"

\* the noisy image dataset k that loadDatasets returns: per channel, its patches
NoisyDataset(k) ==
    [c \in {"r", "g", "b"} |->
        [data |-> IF c = "g" THEN <<1, k % 2>> ELSE <<k % 2, 0>>]]

\* loadDatasets(...) and the lines up to theano.shared(noisy_patches_f); the
\* plot variant sets batch_size = clean_patches_f.shape[0] // 2
LoadDatasets ==
    /\ pc = "start"
    /\ train_set_x' = [k \in 1..cfg.n_patches |-> 0]
    /\ train_set_x_noise' = [k \in 1..cfg.n_patches |-> 1]
    /\ noisy_datasets' = [k \in 1..(IF variant = "main" THEN NDatasets ELSE 1) |->
                            NoisyDataset(k - 1)]
    /\ batch_size' = IF variant = "main" THEN cfg.batch_size
                     ELSE cfg.n_patches \div 2
    /\ path' = Path(variant, cfg)
    /\ AddPhase("load_data")
    /\ pc' = "check"
    /\ UNCHANGED <<sda, lastPretrain, lastFinetune, lastDenoise, variant, cfg, prevRun, i,
                   epoch, batch_index, n_train_batches, pretrain_lr, layer_cost,
                   layers_cost, finetune_costs, isTrained, file, train_fn,
                   preCount, usedPatches, dsIdx, d, images>>

\* isTrained = os.path.isfile(path); if not isTrained:
CheckTrained ==
    /\ pc = "check"
    /\ isTrained' = file.exists
    /\ pc' = IF file.exists THEN "load_model" ELSE "count"
    /\ UNCHANGED <<sdaVars, variant, cfg, prevRun, path, i, epoch, batch_index, n_train_batches,
                   pretrain_lr, layer_cost, layers_cost, finetune_costs, file,
                   train_fn, preCount, usedPatches, phases, dsIdx,
                   noisy_datasets, d, images>>

\* n_train_batches //= batch_size
CountBatches ==
    /\ pc = "count"
    /\ IF batch_size = 0
       THEN /\ pc' = "ZeroDivisionError"
            /\ UNCHANGED n_train_batches
       ELSE /\ n_train_batches' = NTrainBatches(Len(train_set_x), batch_size)
            /\ pc' = "new"
    /\ UNCHANGED <<sdaVars, variant, cfg, prevRun, path, i, epoch, batch_index, pretrain_lr,
                   layer_cost, layers_cost, finetune_costs, isTrained, file,
                   train_fn, preCount, usedPatches, phases, dsIdx,
                   noisy_datasets, d, images>>

\* sda = SdA(numpy_rng, n_ins=Width * Height, hidden_layers_sizes, n_outs=Width * Height)
BuildModel ==
    /\ pc = "new"
    /\ sda' = SdAFields(NIns, hidden_layers_sizes, NIns,
                        <<DefaultCorruption, DefaultCorruption>>)
    /\ AddPhase("construct")
    /\ pc' = "build"
    /\ UNCHANGED <<train_set_x, train_set_x_noise, batch_size, lastPretrain,
                   lastFinetune, lastDenoise, variant, cfg, prevRun, path, i, epoch, batch_index,
                   n_train_batches, pretrain_lr, layer_cost, layers_cost,
                   finetune_costs, isTrained, file, train_fn, preCount,
                   usedPatches, dsIdx, noisy_datasets, d, images>>

\* the constructor raised: test_SdA ends with its exception
ConstructionFailed ==
    /\ pc = "build"
    /\ sda.state \in {"AssertionError", "IndexError"}
    /\ pc' = sda.state
    /\ UNCHANGED <<sdaVars, variant, cfg, prevRun, path, i, epoch, batch_index, n_train_batches,
                   pretrain_lr, layer_cost, layers_cost, finetune_costs, isTrained,
                   file, train_fn, preCount, usedPatches, phases, dsIdx,
                   noisy_datasets, d, images>>

\* pretraining_fns = sda.pretraining_functions(...); the plot variant: layers_cost = []
GetPretrainingFns ==
    /\ pc = "build"
    /\ sda.state = "ready"
    /\ preCount' = [k \in 1..sda.n_layers |-> 0]
    /\ layers_cost' = IF variant = "plot" THEN 0 ELSE layers_cost
    /\ i' = 0
    /\ AddPhase("pretrain")
    /\ pc' = "pre_layer"
    /\ UNCHANGED <<sdaVars, variant, cfg, prevRun, path, epoch, batch_index, n_train_batches,
                   pretrain_lr, layer_cost, finetune_costs, isTrained, file,
                   train_fn, usedPatches, dsIdx, noisy_datasets, d, images>>

\* for i in range(sda.n_layers): (the plot variant: layer_cost = [])
PretrainLayerLoop ==
    /\ pc = "pre_layer"
    /\ IF i < sda.n_layers
       THEN /\ layer_cost' = IF variant = "plot" THEN NoCosts ELSE layer_cost
            /\ epoch' = 0
            /\ pc' = "pre_epoch"
       ELSE /\ pc' = "fine_build"
            /\ UNCHANGED <<layer_cost, epoch>>
    /\ UNCHANGED <<sdaVars, variant, cfg, prevRun, path, i, batch_index, n_train_batches,
                   pretrain_lr, layers_cost, finetune_costs, isTrained, file,
                   train_fn, preCount, usedPatches, phases, dsIdx,
                   noisy_datasets, d, images>>

Abs(v) == IF v < 0 THEN -v ELSE v

\* pretrain_lr * 0.5
Half(r) == Rate(r.num, r.den * 2)

Double_Fourfold(r) == Rate(4 * r.num, r.den)

\* 2 * pretrain_lr
Double(r) == IF r.den % 2 = 0 THEN Rate(r.num, r.den \div 2)
             ELSE Rate(2 * r.num, r.den)

Plateau_NoAbs(lc) == lc.last - lc.prev < CostThreshold

\* numpy.abs(layer_cost[-1] - layer_cost[-2]) < 0.01
Plateau(lc) == Abs(lc.last - lc.prev) < CostThreshold

\* the plot variant's rule at the top of an epoch:
\*   if epoch % 100 == 0 and epoch > 0: pretrain_lr = pretrain_lr * 0.5
\*   if epoch % 100 == 0 and epoch > 0:
\*       if numpy.abs(layer_cost[-1] - layer_cost[-2]) < 0.01: pretrain_lr = 2 * pretrain_lr
AdaptedRate(r, ep, lc) ==
    LET halved == IF ep % EpochPeriod = 0 /\ ep > 0 THEN Half(r) ELSE r
    IN  IF ep % EpochPeriod = 0 /\ ep > 0 /\ Plateau(lc) THEN Double(halved)
        ELSE halved

\* for epoch in range(pretraining_epochs): c = [] (and the plot variant's rule);
\* after the last epoch the plot variant does layers_cost.append(layer_cost)
PretrainEpochLoop ==
    /\ pc = "pre_epoch"
    /\ IF epoch < cfg.pretraining_epochs
       THEN /\ pretrain_lr' = IF variant = "plot"
                              THEN AdaptedRate(pretrain_lr, epoch, layer_cost)
                              ELSE pretrain_lr
            /\ batch_index' = 0
            /\ pc' = "pre_batch"
            /\ UNCHANGED <<i, layers_cost>>
       ELSE /\ layers_cost' = IF variant = "plot" THEN layers_cost + 1
                              ELSE layers_cost
            /\ i' = i + 1
            /\ pc' = "pre_layer"
            /\ UNCHANGED <<pretrain_lr, batch_index>>
    /\ UNCHANGED <<sdaVars, variant, cfg, prevRun, path, epoch, n_train_batches, layer_cost,
                   finetune_costs, isTrained, file, train_fn, preCount,
                   usedPatches, phases, dsIdx, noisy_datasets, d, images>>

BatchLoopContinues_SkipLast(b, n) == b < n - 1

BatchLoopContinues_Never(b, n) == FALSE

\* for batch_index in range(n_train_batches):
BatchLoopContinues(b, n) == b < n

AppendCost_NoCount(lc, c) == [len |-> lc.len, last |-> c, prev |-> lc.last]

\* layer_cost.append(numpy.mean(c))
AppendCost(lc, c) == [len |-> lc.len + 1, last |-> c, prev |-> lc.last]

\* c.append(pretraining_fns[i](index=batch_index, lr=pretrain_lr)); after the
\* last minibatch the plot variant does layer_cost.append(numpy.mean(c))
PretrainBatchLoop ==
    /\ pc = "pre_batch"
    /\ IF BatchLoopContinues(batch_index, n_train_batches)
       THEN /\ PretrainCall(i, epoch, batch_index, pretrain_lr, batch_size)
            /\ preCount' = [preCount EXCEPT ![i + 1] = @ + 1]
            /\ usedPatches' = usedPatches \cup SliceIndexes(batch_index, batch_size)
            /\ batch_index' = batch_index + 1
            /\ UNCHANGED <<epoch, layer_cost, pc>>
       ELSE /\ IF variant = "plot"
               THEN \E c \in Costs : layer_cost' = AppendCost(layer_cost, c)
               ELSE UNCHANGED layer_cost
            /\ epoch' = epoch + 1
            /\ pc' = "pre_epoch"
            /\ UNCHANGED <<sda, lastPretrain, preCount, usedPatches, batch_index>>
    /\ UNCHANGED <<train_set_x, train_set_x_noise, batch_size, lastFinetune,
                   lastDenoise, variant, cfg, prevRun, path, i, n_train_batches, pretrain_lr,
                   layers_cost, finetune_costs, isTrained, file, train_fn, phases,
                   dsIdx, noisy_datasets, d, images>>

\* train_fn = sda.build_finetune_functions(..., learning_rate=finetune_lr);
\* epoch = 0 (and the plot variant: finetune_costs = [])
BuildFinetune ==
    /\ pc = "fine_build"
    /\ train_fn' = [built |-> TRUE, lr |-> cfg.finetune_lr]
    /\ epoch' = 0
    /\ finetune_costs' = IF variant = "plot" THEN 0 ELSE finetune_costs
    /\ AddPhase("finetune")
    /\ pc' = "fine_epoch"
    /\ UNCHANGED <<sdaVars, variant, cfg, prevRun, path, i, batch_index, n_train_batches,
                   pretrain_lr, layer_cost, layers_cost, isTrained, file,
                   preCount, usedPatches, dsIdx, noisy_datasets, d, images>>

FinetuneLoopContinues_OneMore(ep, n) == ep <= n

\* while (epoch < training_epochs):
FinetuneLoopContinues(ep, n) == ep < n

PcAfterTraining_Persist == IF variant = "main" THEN "persist" ELSE "return"

\* where test_SdA goes on once it holds a stack: the main variant to its loop over
\* noisy_datasets, the plot variant to its return statement
PcAfterTraining == IF variant = "main" THEN "filter_loop" ELSE "return"

\* while (epoch < training_epochs): epoch = epoch + 1; c = []
FinetuneEpochLoop ==
    /\ pc = "fine_epoch"
    /\ IF FinetuneLoopContinues(epoch, cfg.training_epochs)
       THEN /\ epoch' = epoch + 1
            /\ batch_index' = 0
            /\ pc' = "fine_batch"
       ELSE /\ pc' = PcAfterTraining
            /\ UNCHANGED <<epoch, batch_index>>
    /\ UNCHANGED <<sdaVars, variant, cfg, prevRun, path, i, n_train_batches, pretrain_lr,
                   layer_cost, layers_cost, finetune_costs, isTrained, file,
                   train_fn, preCount, usedPatches, phases, dsIdx,
                   noisy_datasets, d, images>>

\* for minibatch_index in range(n_train_batches): c.append(train_fn(minibatch_index));
\* after the last one the plot variant does finetune_costs.append(numpy.mean(c))
FinetuneBatchLoop ==
    /\ pc = "fine_batch"
    /\ IF BatchLoopContinues(batch_index, n_train_batches)
       THEN /\ FinetuneCall(epoch, batch_index, train_fn.lr)
            /\ usedPatches' = usedPatches \cup SliceIndexes(batch_index, batch_size)
            /\ batch_index' = batch_index + 1
            /\ UNCHANGED <<finetune_costs, pc>>
       ELSE /\ finetune_costs' = IF variant = "plot" THEN finetune_costs + 1
                                 ELSE finetune_costs
            /\ pc' = "fine_epoch"
            /\ UNCHANGED <<sda, lastFinetune, usedPatches, batch_index>>
    /\ UNCHANGED <<train_set_x, train_set_x_noise, batch_size, lastPretrain,
                   lastDenoise, variant, cfg, prevRun, path, i, epoch, n_train_batches,
                   pretrain_lr, layer_cost, layers_cost, isTrained, file,
                   train_fn, preCount, phases, dsIdx, noisy_datasets, d, images>>

\* loadTrainedData(path): the pickled object
loadTrainedData(f) == f.data

\* sda = loadTrainedData(path)
LoadModel ==
    /\ pc = "load_model"
    /\ sda' = loadTrainedData(file)
    /\ AddPhase("load_model")
    /\ pc' = PcAfterTraining
    /\ UNCHANGED <<train_set_x, train_set_x_noise, batch_size, lastPretrain,
                   lastFinetune, lastDenoise, variant, cfg, prevRun, path, i, epoch, batch_index,
                   n_train_batches, pretrain_lr, layer_cost, layers_cost,
                   finetune_costs, isTrained, file, train_fn, preCount,
                   usedPatches, dsIdx, noisy_datasets, d, images>>

\* the plot variant: return layers_cost, finetune_costs
Return ==
    /\ pc = "return"
    /\ pc' = IF layers_cost = -1 \/ finetune_costs = -1 THEN "UnboundLocalError"
             ELSE "done"
    /\ UNCHANGED <<sdaVars, variant, cfg, prevRun, path, i, epoch, batch_index, n_train_batches,
                   pretrain_lr, layer_cost, layers_cost, finetune_costs, isTrained,
                   file, train_fn, preCount, usedPatches, phases, dsIdx,
                   noisy_datasets, d, images>>

filterImagesSdA_ChannelR(noise_datasets, self) ==
    [c \in {"r", "g", "b"} |->
        [noise_datasets[c] EXCEPT !.data = Denoise(self, noise_datasets["r"].data)]]

\* filterImagesSdA(noise_datasets, sda) of the main variant: a deep copy whose
\* channels r, g, b each hold the denoise output for the channel's data
filterImagesSdA(noise_datasets, self) ==
    [c \in {"r", "g", "b"} |->
        [noise_datasets[c] EXCEPT !.data = Denoise(self, @)]]

\* Z = evaluate(X) for one stored patch X, a value [base, through]: the same
\* input with the layers of the denoise graph applied after those it has been
\* through
DenoisePatch(self, X) ==
    [base |-> X.base, through |-> X.through \o Denoise(self, X.base).through]

\* filterImagesSdA(noise_datasets, sda) of the plot variant: d is a shallow copy,
\* so d[c] is the caller's own channel; every patch of a channel is evaluated
\* alone and written to d[c]['data'][idx], which is the caller's data too
filterImagesSdAPlot(noise_datasets, self) ==
    LET out == [c \in {"r", "g", "b"} |->
                  [noise_datasets[c] EXCEPT !.data =
                      [idx \in DOMAIN @ |-> DenoisePatch(self, @[idx])]]]
    IN  [d |-> out, noise_datasets |-> out]

\* for i in range(len(noisy_datasets)): d = filterImagesSdA(noisy_dataset, sda)
FilterLoop ==
    /\ pc = "filter_loop"
    /\ IF dsIdx < Len(noisy_datasets)
       THEN /\ d' = filterImagesSdA(noisy_datasets[dsIdx + 1], sda)
            /\ AddPhase("inference")
            /\ pc' = "save_image"
       ELSE /\ pc' = "persist"
            /\ UNCHANGED <<d, phases>>
    /\ UNCHANGED <<sdaVars, variant, cfg, prevRun, path, i, epoch, batch_index, n_train_batches,
                   pretrain_lr, layer_cost, layers_cost, finetune_costs, isTrained,
                   file, train_fn, preCount, usedPatches, dsIdx, noisy_datasets,
                   images>>

\* saveImage(d, noise_n + parameters_name, result_folder)
SaveImage ==
    /\ pc = "save_image"
    /\ images' = Append(images, [name |-> dsIdx, data |-> d])
    /\ dsIdx' = dsIdx + 1
    /\ AddPhase("image_save")
    /\ pc' = "filter_loop"
    /\ UNCHANGED <<sdaVars, variant, cfg, prevRun, path, i, epoch, batch_index, n_train_batches,
                   pretrain_lr, layer_cost, layers_cost, finetune_costs, isTrained,
                   file, train_fn, preCount, usedPatches, noisy_datasets, d>>

saveTrainedData_NotWritten(self) == NoFile

\* saveTrainedData(path, sda): pickle.dump of the object
saveTrainedData(self) == [exists |-> TRUE, data |-> self]

SaveTrained ==
    /\ pc = "persist"
    /\ file' = saveTrainedData(sda)
    /\ AddPhase("persist")
    /\ pc' = "done"
    /\ UNCHANGED <<sdaVars, variant, cfg, prevRun, path, i, epoch, batch_index, n_train_batches,
                   pretrain_lr, layer_cost, layers_cost, finetune_costs, isTrained,
                   train_fn, preCount, usedPatches, dsIdx, noisy_datasets, d,
                   images>>

\* a whole SdA.__init__, for a stack an earlier run constructed
RECURSIVE Constructed(_)
Constructed(self) ==
    IF self.state # "layers" THEN self
    ELSE IF Len(self.dA_layers) < self.n_layers THEN Constructed(SdALayer(self))
    ELSE SdALogLayer(self)

\* what an earlier run with the same arguments left at `path`: a stack of the
\* same architecture whose parameters have been trained
StoredStack(c) ==
    FinetuneUpdate(Constructed(
        SdAFields(NIns, [k \in DOMAIN c.hidden_layers_fraction |->
                           HiddenSize(c.hidden_layers_fraction[k])],
                  NIns, <<DefaultCorruption, DefaultCorruption>>)))

PretrainEpochChoices ==
    {0, 1} \cup {k * EpochPeriod + 1 : k \in 1..MaxPeriods}

\* the arguments of test_SdA and the dataset's size; long pretraining is
\* combined with the longest fine-tuning only
Configs(v) ==
    {c \in [finetune_lr : FinetuneLrs,
            pretraining_epochs : PretrainEpochChoices,
            pretrain_lr : PretrainLrs,
            training_epochs : {0, MaxTrainEpochs},
            hidden_layers_fraction :
                {[k \in 1..n |-> DefaultFraction] : n \in 0..MaxLayers},
            batch_size : IF v = "main" THEN {1, MaxBatchSize} ELSE {0},
            n_patches : 0..MaxPatches,
            noise_dataset_samples : {DefaultSamples(v)}] :
        c.pretraining_epochs <= 1 \/ c.training_epochs = MaxTrainEpochs}

Init ==
    /\ pc = "start"
    /\ sda = UnboundSdA
    /\ train_set_x = <<>>
    /\ train_set_x_noise = <<>>
    /\ batch_size = 0
    /\ lastPretrain = NoPretrain
    /\ lastFinetune = NoFinetune
    /\ lastDenoise = NoDenoise
    /\ \E v \in {"main", "plot"} :
         \E c \in Configs(v) :
           \E f \in {NoFile} \cup
                    (IF c.hidden_layers_fraction # <<>>
                     THEN {[exists |-> TRUE, data |-> StoredStack(c)]} ELSE {}) :
             RunIdle(v, c, f)

Next ==
    \/ LoadDatasets
    \/ CheckTrained
    \/ CountBatches
    \/ BuildModel
    \/ ConstructLayer
    \/ ConstructLogLayer
    \/ ConstructionFailed
    \/ GetPretrainingFns
    \/ PretrainLayerLoop
    \/ PretrainEpochLoop
    \/ PretrainBatchLoop
    \/ BuildFinetune
    \/ FinetuneEpochLoop
    \/ FinetuneBatchLoop
    \/ LoadModel
    \/ Return
    \/ FilterLoop
    \/ SaveImage
    \/ SaveTrained

Spec == Init /\ [][Next]_vars

\* the runs whose pretraining passes the first evaluation of the rate rule at most
InitLive == Init /\ cfg.pretraining_epochs <= EpochPeriod + 1

\* test_SdA is one sequential program: while a statement is left to execute,
\* one is executed
SpecLive == InitLive /\ [][Next]_vars /\ WF_vars(Next)

-----------------------------------------------------------------------------
(* test_SdA of SdADenoising.py called twice with the same arguments *)

\* the second call of test_SdA(...), made when the first has returned: the
\* locals of the call are fresh, the file system is as the first call left it
RunAgain ==
    /\ pc = "done"
    /\ variant = "main"
    /\ prevRun.n = 0
    /\ prevRun' = [n |-> 1, path |-> path, file |-> file]
    /\ pc' = "start"
    /\ sda' = UnboundSdA
    /\ train_set_x' = <<>>
    /\ train_set_x_noise' = <<>>
    /\ batch_size' = 0
    /\ lastPretrain' = NoPretrain
    /\ lastFinetune' = NoFinetune
    /\ lastDenoise' = NoDenoise
    /\ path' = NoPath
    /\ i' = 0 /\ epoch' = 0 /\ batch_index' = 0 /\ n_train_batches' = 0
    /\ pretrain_lr' = cfg.pretrain_lr
    /\ layer_cost' = NoCosts
    /\ layers_cost' = -1 /\ finetune_costs' = -1
    /\ isTrained' = FALSE
    /\ train_fn' = [built |-> FALSE, lr |-> Rate(0, 1)]
    /\ preCount' = <<>>
    /\ usedPatches' = {}
    /\ phases' = <<>>
    /\ dsIdx' = 0
    /\ noisy_datasets' = <<>>
    /\ d' = NoDataset
    /\ images' = <<>>
    /\ UNCHANGED <<variant, cfg, file>>

InitRerun == Init /\ variant = "main"

NextRerun ==
    \/ LoadDatasets
    \/ CheckTrained
    \/ CountBatches
    \/ BuildModel
    \/ ConstructLayer
    \/ ConstructLogLayer
    \/ ConstructionFailed
    \/ GetPretrainingFns
    \/ PretrainLayerLoop
    \/ PretrainEpochLoop
    \/ PretrainBatchLoop
    \/ BuildFinetune
    \/ FinetuneEpochLoop
    \/ FinetuneBatchLoop
    \/ LoadModel
    \/ FilterLoop
    \/ SaveImage
    \/ SaveTrained
    \/ RunAgain

SpecRerun == InitRerun /\ [][NextRerun]_vars

-----------------------------------------------------------------------------
(* filterImagesSdA called on a stack and a noisy image dataset *)

MaxChannelPatches == 2  \* patches of a channel of an image dataset: 1..MaxChannelPatches

\* a patch as loaded: its value, no layer applied
RawPatches == {[base |-> p, through |-> <<>>] : p \in PatchValues}

ChannelData ==
    UNION {[1..n -> RawPatches] : n \in 1..MaxChannelPatches}

ImageDatasets == [{"r", "g", "b"} -> [data : ChannelData]]

\* the stacks test_SdA hands to filterImagesSdA: constructed with n_outs = n_ins,
\* untrained or trained
FilterStacks ==
    LET built == {Constructed(SdAFields(NIns,
                                        [k \in 1..n |-> HiddenSize(DefaultFraction)],
                                        NIns, <<DefaultCorruption, DefaultCorruption>>)) :
                    n \in 1..MaxLayers}
    IN  built \cup {FinetuneUpdate(s) : s \in built}

\* d = filterImagesSdA(noisy_dataset, sda), the function of SdADenoising.py
FilterImagesMain ==
    /\ pc = "filter_call"
    /\ variant = "main"
    /\ d' = filterImagesSdA(noisy_datasets[1], sda)
    /\ pc' = "filter_done"
    /\ UNCHANGED <<sdaVars, variant, cfg, prevRun, path, i, epoch, batch_index, n_train_batches,
                   pretrain_lr, layer_cost, layers_cost, finetune_costs, isTrained,
                   file, train_fn, preCount, usedPatches, phases, dsIdx,
                   noisy_datasets, images>>

\* d = filterImagesSdA(noisy_datasets, sda), the function of SdADenoisingPlot.py
FilterImagesPlot ==
    /\ pc = "filter_call"
    /\ variant = "plot"
    /\ LET r == filterImagesSdAPlot(noisy_datasets[1], sda)
       IN  /\ d' = r.d
           /\ noisy_datasets' = <<r.noise_datasets>>
    /\ pc' = "filter_done"
    /\ UNCHANGED <<sdaVars, variant, cfg, prevRun, path, i, epoch, batch_index, n_train_batches,
                   pretrain_lr, layer_cost, layers_cost, finetune_costs, isTrained,
                   file, train_fn, preCount, usedPatches, phases, dsIdx, images>>

InitFilter ==
    /\ pc = "filter_call"
    /\ sda \in FilterStacks
    /\ train_set_x = <<>>
    /\ train_set_x_noise = <<>>
    /\ batch_size = 0
    /\ lastPretrain = NoPretrain
    /\ lastFinetune = NoFinetune
    /\ lastDenoise = NoDenoise
    /\ variant \in {"main", "plot"}
    /\ cfg = NoCfg
    /\ prevRun = NoPrevRun
    /\ path = NoPath
    /\ file = NoFile
    /\ i = 0 /\ epoch = 0 /\ batch_index = 0 /\ n_train_batches = 0
    /\ pretrain_lr = cfg.pretrain_lr
    /\ layer_cost = NoCosts
    /\ layers_cost = -1 /\ finetune_costs = -1
    /\ isTrained = FALSE
    /\ train_fn = [built |-> FALSE, lr |-> Rate(0, 1)]
    /\ preCount = <<>>
    /\ usedPatches = {}
    /\ phases = <<>>
    /\ dsIdx = 0
    /\ \E ds \in ImageDatasets : noisy_datasets = <<ds>>
    /\ d = NoDataset
    /\ images = <<>>

NextFilter ==
    \/ FilterImagesMain
    \/ FilterImagesPlot

SpecFilter == InitFilter /\ [][NextFilter]_vars

-----------------------------------------------------------------------------
(* The stored-model path of test_SdA, over its arguments *)

\* arguments of test_SdA that differ in every value the path is built from, and
\* in noise_dataset_samples; the dataset has 4 patches in SdADenoising.py
PathConfigs(v) ==
    [finetune_lr : {Rate(1, 100), Rate(1, 10)},
     pretraining_epochs : {1, 10},
     pretrain_lr : {Rate(1, 10), Rate(1, 1)},
     training_epochs : {1, 10},
     hidden_layers_fraction :
         UNION {[1..n -> {DefaultFraction, Rate(3, 10)}] : n \in 1..MaxLayers},
     batch_size : IF v = "main" THEN {12, 128} ELSE {0},
     n_patches : IF v = "main" THEN {4} ELSE {2, 4, 5},
     noise_dataset_samples : {5, 20}]

InitPath ==
    /\ pc = "start"
    /\ sda = UnboundSdA
    /\ train_set_x = <<>>
    /\ train_set_x_noise = <<>>
    /\ batch_size = 0
    /\ lastPretrain = NoPretrain
    /\ lastFinetune = NoFinetune
    /\ lastDenoise = NoDenoise
    /\ \E v \in {"main", "plot"} :
         \E c \in PathConfigs(v) : RunIdle(v, c, NoFile)

\* test_SdA up to the line that sets `path`
NextPath == LoadDatasets

SpecPath == InitPath /\ [][NextPath]_vars

-----------------------------------------------------------------------------
(* Properties *)

LexLess(a, b) ==
    \/ a.layer < b.layer
    \/ a.layer = b.layer /\ a.epoch < b.epoch
    \/ a.layer = b.layer /\ a.epoch = b.epoch /\ a.index < b.index

SameRate(r, q) == r.num * q.den = q.num * r.den
HalfOf(r, q) == 2 * r.num * q.den = q.num * r.den

\* test_SdA has left its training block, having trained
Trained ==
    /\ ~isTrained
    /\ pc \in {"filter_loop", "save_image", "persist", "return", "done"}

\* C1: in test_SdA the pretraining calls are made in strictly increasing
\* (layer, epoch, minibatch) order, every call within the ranges of its loops,
\* and a layer gets its first call only when every layer before it has had all
\* of its pretraining_epochs * n_train_batches calls.
C1_PretrainingOrder ==
    /\ lastPretrain.n >= 1 =>
         /\ lastPretrain.layer \in 0..(sda.n_layers - 1)
         /\ lastPretrain.epoch \in 0..(cfg.pretraining_epochs - 1)
         /\ lastPretrain.index \in 0..(n_train_batches - 1)
    /\ lastPretrain.n >= 2 => LexLess(lastPretrain.prev, lastPretrain)
    /\ \A k \in DOMAIN preCount :
         /\ preCount[k] > 0 =>
              \A j \in 1..(k - 1) :
                 preCount[j] = cfg.pretraining_epochs * n_train_batches
         /\ k > lastPretrain.layer + 1 => preCount[k] = 0

C1_Witness ==
    /\ pc = "fine_build"
    /\ sda.n_layers = 2
    /\ cfg.pretraining_epochs > 1
    /\ n_train_batches >= 2
    /\ preCount[2] = cfg.pretraining_epochs * n_train_batches

\* the plateau test of the rule, on the costs recorded when the call was made
RecordedPlateau(c) ==
    /\ c.len >= 2
    /\ c.last - c.prev < CostThreshold
    /\ c.prev - c.last < CostThreshold

\* the rule of C2 for the call `cur`: the first call of an epoch that is a
\* positive multiple of 100 is made with the previous rate on a plateau and half
\* of it otherwise; every other call with the rate of the call before it
RateRule(cur) ==
    IF cur.index = 0 /\ cur.epoch % EpochPeriod = 0 /\ cur.epoch > 0
    THEN IF RecordedPlateau(cur.costs) THEN SameRate(cur.lr, cur.prev.lr)
         ELSE HalfOf(cur.lr, cur.prev.lr)
    ELSE SameRate(cur.lr, cur.prev.lr)

\* C2 as stated: in test_SdA, every 100 epochs the pretraining rate is halved
\* unless the last two recorded mean costs differ by less than 0.01, and it is
\* the same as in the previous epoch otherwise.
C2_Original == lastPretrain.n >= 2 => RateRule(lastPretrain)

\* C2 amended: the rule holds in SdADenoisingPlot.py; in SdADenoising.py every
\* pretraining call is made with the configured pretrain_lr.
C2_AdaptiveRate ==
    /\ (variant = "plot" /\ lastPretrain.n >= 2) => RateRule(lastPretrain)
    /\ (variant = "main" /\ lastPretrain.n >= 1) =>
          SameRate(lastPretrain.lr, cfg.pretrain_lr)

C2_Witness ==
    /\ variant = "plot"
    /\ lastPretrain.layer = 1
    /\ lastPretrain.epoch = 2 * EpochPeriod
    /\ lastPretrain.index = 0
    /\ ~RecordedPlateau(lastPretrain.costs)
    /\ HalfOf(lastPretrain.lr, lastPretrain.prev.lr)
    /\ ~SameRate(lastPretrain.prev.lr, cfg.pretrain_lr)

\* C3: every fine-tuning call uses the configured finetune_lr; the calls run
\* through epochs 1..training_epochs and, within an epoch, through the minibatch
\* indexes 0..N-1 once each in increasing order (the n-th call is the one of
\* epoch (n-1) div N + 1 and index (n-1) mod N); none is made before the last
\* pretraining call; the plot variant records one mean cost per epoch.
C3_Finetuning ==
    /\ lastFinetune.n >= 1 =>
         /\ SameRate(lastFinetune.lr, cfg.finetune_lr)
         /\ lastFinetune.epoch \in 1..cfg.training_epochs
         /\ lastFinetune.index \in 0..(n_train_batches - 1)
         /\ lastFinetune.n =
              (lastFinetune.epoch - 1) * n_train_batches + lastFinetune.index + 1
         /\ lastPretrain.n =
              sda.n_layers * cfg.pretraining_epochs * n_train_batches
    /\ Trained => lastFinetune.n = cfg.training_epochs * n_train_batches
    /\ (variant = "plot" /\ pc = "fine_epoch") => finetune_costs = epoch
    /\ (variant = "plot" /\ Trained) => finetune_costs = cfg.training_epochs

C3_Witness ==
    /\ variant = "plot"
    /\ pc = "done"
    /\ cfg.training_epochs = 2
    /\ n_train_batches = 3
    /\ lastFinetune.n = 6
    /\ lastPretrain.n > 0

\* C4: in test_SdA (with arguments the constructor accepts) the file at the
\* stored-model path alone decides whether training happens: if it exists no
\* gradient step is made and the stack used afterwards is the stored one; if not,
\* a fresh stack is constructed and both phases run; in both cases the run
\* completes with a usable stack.
C4_FileGatesTraining ==
    /\ pc # "UnboundLocalError"
    /\ isTrained =>
         /\ lastPretrain.n = 0 /\ lastFinetune.n = 0
         /\ pc # "load_model" => sda = StoredStack(cfg)
    /\ Trained =>
         /\ sda.state = "ready"
         /\ lastPretrain.n = sda.n_layers * cfg.pretraining_epochs * n_train_batches
         /\ lastFinetune.n = cfg.training_epochs * n_train_batches
    /\ pc = "done" => sda.state = "ready"

\* C5: constructing an SdA with an empty hidden_layers_sizes ends in the
\* assertion error with no layer, autoencoder, regression layer, parameter entry
\* or shared variable created, so every constructed stack has at least one layer.
C5_EmptyStackRejected ==
    /\ (sda.state # "unbound" /\ sda.hidden_layers_sizes = <<>>) =>
         /\ sda.state = "AssertionError"
         /\ sda.sigmoid_noise_layers = <<>>
         /\ sda.dA_layers = <<>>
         /\ sda.params = <<>>
         /\ sda.shared = <<>>
         /\ ~sda.logLayer.made
    /\ sda.state = "ready" =>
         /\ sda.n_layers >= 1
         /\ Len(sda.dA_layers) = sda.n_layers
         /\ Len(sda.sigmoid_noise_layers) = sda.n_layers
         /\ sda.logLayer.made

C5_Witness == sda.state = "AssertionError" /\ sda.hidden_layers_sizes = <<>>

\* C6 as stated: when the number of training patches is not a multiple of
\* batch_size, no gradient step is ever taken.
C6_Original ==
    (batch_size > 0 /\ Len(train_set_x) % batch_size # 0) =>
        lastPretrain.n = 0 /\ lastFinetune.n = 0

\* C6 amended: the number of minibatches is the floor of patches / batch_size;
\* the gradient steps read the first n_train_batches * batch_size patches and
\* never one of the trailing patches, and training runs to its end.
C6_Truncates ==
    /\ \A k \in usedPatches : k < n_train_batches * batch_size /\ k < Len(train_set_x)
    /\ n_train_batches * batch_size <= Len(train_set_x)
    /\ (pc \notin {"start", "check", "count", "load_model"} /\ ~isTrained
          /\ batch_size > 0) =>
          Len(train_set_x) - n_train_batches * batch_size < batch_size
    /\ (Trained /\ lastPretrain.n + lastFinetune.n > 0) =>
          usedPatches = 0..(n_train_batches * batch_size - 1)

C6_Witness ==
    /\ pc = "done"
    /\ Len(train_set_x) % batch_size # 0
    /\ lastPretrain.n > 0
    /\ lastFinetune.n > 0
    /\ usedPatches # {}
    /\ Len(train_set_x) - 1 \notin usedPatches

\* C7: the i-th autoencoder's W and hidden bias are the same shared variables as
\* the i-th hidden layer's W and b and as entries 2i, 2i+1 of SdA.params, so the
\* denoise graph (autoencoder view) and the fine-tuning cost (hidden-layer view)
\* read the same parameters, layer by layer, whatever steps have been made.
C7_SharedParameters ==
    /\ \A k \in DOMAIN sda.dA_layers :
         /\ sda.dA_layers[k].W = sda.sigmoid_noise_layers[k].W
         /\ sda.dA_layers[k].b = sda.sigmoid_noise_layers[k].b
         /\ sda.params[2 * k - 1] = sda.dA_layers[k].W
         /\ sda.params[2 * k] = sda.dA_layers[k].b
         /\ sda.dA_layers[k].b_prime \notin
               {sda.dA_layers[k].W, sda.dA_layers[k].b}
    /\ sda.state = "ready" =>
         LET viaAutoencoders == get_denoised_patch_function(sda, patch_sym)
             viaHiddenLayers == sda.finetune_cost.pred
         IN  /\ Len(viaAutoencoders) = Len(viaHiddenLayers)
             /\ \A k \in 2..Len(viaAutoencoders) :
                   /\ viaAutoencoders[k] = viaHiddenLayers[k]
                   /\ sda.shared[viaAutoencoders[k].W] =
                        sda.shared[viaHiddenLayers[k].W]

C7_Witness ==
    /\ sda.state = "ready"
    /\ sda.n_layers = 2
    /\ lastPretrain.n >= 1
    /\ lastPretrain.layer = 1
    /\ lastFinetune.n >= 1
    /\ sda.shared[sda.sigmoid_noise_layers[2].W].ver >= 2

\* C8: denoise evaluates, on the given patch, the encode of every layer once in
\* the order 0..n_layers-1 and then the regression layer, each with the parameter
\* values of the store at the time of evaluation, and nothing else.
C8_Denoise ==
    lastDenoise.n >= 1 =>
        /\ Len(lastDenoise.chain) = sda.n_layers + 2
        /\ lastDenoise.chain[1] = Node("patch", 0, 0)
        /\ \A k \in 1..sda.n_layers :
              lastDenoise.chain[k + 1] =
                 Node("sigmoid", sda.dA_layers[k].W, sda.dA_layers[k].b)
        /\ lastDenoise.chain[sda.n_layers + 2] =
              Node("regress", sda.logLayer.W, sda.logLayer.b)
        /\ lastDenoise.out.base = lastDenoise.patch
        /\ Len(lastDenoise.out.through) = sda.n_layers + 1
        /\ \A k \in 1..(sda.n_layers + 1) :
              /\ lastDenoise.out.through[k].op = lastDenoise.chain[k + 1].op
              /\ lastDenoise.out.through[k].W =
                    lastDenoise.shared[lastDenoise.chain[k + 1].W]
              /\ lastDenoise.out.through[k].b =
                    lastDenoise.shared[lastDenoise.chain[k + 1].b]

C8_Witness ==
    /\ lastDenoise.n >= 1
    /\ sda.n_layers = 2
    /\ lastDenoise.out.through[2].W.ver >= 1
    /\ lastDenoise.out.through[3].W.ver >= 1

\* C9: for a stack constructed with corruption levels 0, the noisy-path input of
\* the autoencoder a pretraining step trains equals its clean-path input.
C9_ZeroCorruptionPathsCoincide ==
    (/\ lastPretrain.n >= 1
     /\ sda.corruption_levels # <<>>
     /\ \A k \in DOMAIN sda.corruption_levels :
           sda.corruption_levels[k] = ZeroCorruption) =>
        lastPretrain.noisy_in = lastPretrain.clean_in

PhaseRankOriginal(p) ==
    CASE p = "load_data" -> 1
      [] p \in {"construct", "load_model"} -> 2
      [] p = "pretrain" -> 3
      [] p = "finetune" -> 4
      [] p = "persist" -> 5
      [] p \in {"inference", "image_save"} -> 6

PhaseRankCode(p) ==
    CASE p = "load_data" -> 1
      [] p \in {"construct", "load_model"} -> 2
      [] p = "pretrain" -> 3
      [] p = "finetune" -> 4
      [] p \in {"inference", "image_save"} -> 5
      [] p = "persist" -> 6

\* C10 as stated: the phases of a run come in the order dataset load, stack
\* construction, pretraining, fine-tuning, persist, inference and image save:
\* the stack is written before any inference or image save.
C10_Original ==
    \A k \in 1..(Len(phases) - 1) :
        PhaseRankOriginal(phases[k]) <= PhaseRankOriginal(phases[k + 1])

\* C10 amended: in SdADenoising.py the order is dataset load, then construction,
\* pretraining and fine-tuning (or loading the stored stack), then for each noisy
\* dataset in turn inference followed by its image save, and only then the write
\* of the stack; SdADenoisingPlot.py does no inference, image save or write.
C10_PhaseOrder ==
    /\ \A k \in 1..(Len(phases) - 1) :
          /\ PhaseRankCode(phases[k]) <= PhaseRankCode(phases[k + 1])
          /\ phases[k + 1] = "image_save" => phases[k] = "inference"
    /\ variant = "plot" =>
          Range(phases) \cap {"inference", "image_save", "persist"} = {}
    /\ (variant = "main" /\ pc = "done") =>
          /\ Len(images) = NDatasets
          /\ Last(phases) = "persist"
          /\ file.exists /\ file.data = sda
          /\ IF isTrained
             THEN SubSeq(phases, 1, 2) = <<"load_data", "load_model">>
             ELSE SubSeq(phases, 1, 4) =
                     <<"load_data", "construct", "pretrain", "finetune">>

C10_Witness ==
    /\ variant = "main"
    /\ pc = "done"
    /\ phases = <<"load_data", "construct", "pretrain", "finetune", "inference",
                  "image_save", "inference", "image_save", "persist">>
    /\ lastFinetune.n > 0

RGB == {"r", "g", "b"}

\* the denoise output for the data of one channel: SdADenoising.py evaluates the
\* whole channel as one matrix, SdADenoisingPlot.py one patch at a time
ChannelOutput(v, self, data) ==
    IF v = "main" THEN Denoise(self, data)
    ELSE [idx \in DOMAIN data |-> DenoisePatch(self, data[idx])]

\* the number of patches of a channel's denoised data
OutputPatches(v, out) == IF v = "main" THEN Len(out.base) ELSE Len(out)

\* C11: in the dataset filterImagesSdA returns, the data of each of the channels
\* r, g, b is the stack's denoise output for the data that channel had in the
\* argument (a function of that channel's data and the stack alone), with as
\* many patches, and of the input's per-patch dimensionality (n_outs = n_ins).
C11_ChannelsIndependent ==
    [][(pc = "filter_call" /\ pc' = "filter_done") =>
         /\ DOMAIN d' = RGB
         /\ \A c \in RGB :
               /\ d'[c].data = ChannelOutput(variant, sda, noisy_datasets[1][c].data)
               /\ OutputPatches(variant, d'[c].data) =
                     Len(noisy_datasets[1][c].data)
         /\ sda.logLayer.n_out = sda.n_ins]_vars

C11_Witness ==
    /\ pc = "filter_done"
    /\ sda.n_layers = 2
    /\ d["r"].data # d["g"].data
    /\ d["g"].data # d["b"].data
    /\ d["r"].data # d["b"].data
    /\ \A c \in RGB : d[c].data # <<>>

\* C18: a call of filterImagesSdA leaves every parameter of the stack and the
\* caller's noisy dataset, its per-channel data included, unchanged.
C18_InferenceNoEffect ==
    [][(pc = "filter_call" /\ pc' = "filter_done") =>
         /\ sda' = sda
         /\ noisy_datasets' = noisy_datasets]_vars

\* the values C12 names: the dataset names of the run and the hyperparameter tuple
PathKey(v, c) ==
    <<DatasetNames(v, c), c.pretraining_epochs, c.training_epochs,
      [k \in DOMAIN c.hidden_layers_fraction |->
          HiddenSize(c.hidden_layers_fraction[k])],
      c.finetune_lr, c.pretrain_lr, patch_size[1], BatchSizeOf(v, c)>>

\* C12: the path test_SdA computes is the same for two runs exactly when they
\* agree on the dataset names and on (pretraining epochs, fine-tuning epochs,
\* hidden sizes, fine-tune rate, pretrain rate, patch width, batch size), and two
\* runs with the same path train on the same datasets.
C12_PathKeysTrainingData ==
    pc = "check" =>
        \A c2 \in PathConfigs(variant) :
            /\ (PathKey(variant, c2) = PathKey(variant, cfg)) <=>
                  (Path(variant, c2) = path)
            /\ Path(variant, c2) = path =>
                  DatasetNames(variant, c2) = DatasetNames(variant, cfg)

\* the statements at which test_SdA ends: its last statement or an exception
TerminalPcs ==
    {"done", "AssertionError", "IndexError", "ZeroDivisionError",
     "UnboundLocalError"}

\* the pretraining state of layer k (1-based) of a run that trains:
\* 0 NotStarted, 1 Running(epoch), 2 Done
LayerState(k) ==
    IF pc \in {"start", "check", "count", "new", "build"} THEN 0
    ELSE IF pc \in {"pre_layer", "pre_epoch", "pre_batch"}
         THEN IF k - 1 < i THEN 2
              ELSE IF k - 1 = i /\ pc # "pre_layer" THEN 1
              ELSE 0
    ELSE 2

\* C13: a run of test_SdA that trains (n_layers >= 1, N minibatches) ends; each
\* layer goes NotStarted -> Running(epoch) -> Done, one state at a time and never
\* back, with no call before it runs and pretraining_epochs * N calls once it is
\* Done; when training is over n_layers * pretraining_epochs * N pretraining
\* calls and training_epochs * N fine-tuning calls have been made, and the run
\* ends at its last statement.
C13_Terminates ==
    /\ <>(pc \in TerminalPcs)
    /\ [][(~isTrained' /\ sda'.state = "ready" /\ sda.state = "ready") =>
            \A k \in 1..sda.n_layers :
                /\ LayerState(k)' >= LayerState(k)
                /\ LayerState(k)' <= LayerState(k) + 1]_vars
    /\ [](( ~isTrained /\ sda.state = "ready" /\ preCount # <<>>) =>
            /\ \A k \in 1..sda.n_layers :
                  /\ LayerState(k) = 0 => preCount[k] = 0
                  /\ LayerState(k) = 1 =>
                        /\ epoch \in 0..cfg.pretraining_epochs
                        /\ preCount[k] <= cfg.pretraining_epochs * n_train_batches
                  /\ LayerState(k) = 2 =>
                        preCount[k] = cfg.pretraining_epochs * n_train_batches
            /\ lastFinetune.n > 0 =>
                  lastPretrain.n =
                     sda.n_layers * cfg.pretraining_epochs * n_train_batches
            /\ Trained =>
                  /\ lastPretrain.n =
                        sda.n_layers * cfg.pretraining_epochs * n_train_batches
                  /\ lastFinetune.n = cfg.training_epochs * n_train_batches
            /\ pc \in TerminalPcs => pc = "done")

C13_Witness ==
    /\ pc = "done"
    /\ ~isTrained
    /\ sda.n_layers = 2
    /\ cfg.pretraining_epochs > 1
    /\ n_train_batches > 1
    /\ lastPretrain.n = 2 * cfg.pretraining_epochs * n_train_batches
    /\ lastFinetune.n = cfg.training_epochs * n_train_batches
    /\ lastFinetune.n > 0

\* the plot variant is at the top of an epoch at which its rule reads
\* layer_cost[-1] and layer_cost[-2]
RuleReads ==
    /\ variant = "plot"
    /\ pc = "pre_epoch"
    /\ epoch < cfg.pretraining_epochs
    /\ epoch % EpochPeriod = 0
    /\ epoch > 0

\* C14 as stated: when the rule reads the last two mean costs at least two have
\* been recorded for the current layer, and at epoch 100 exactly two.
C14_Original ==
    RuleReads =>
        /\ layer_cost.len >= 2
        /\ epoch = EpochPeriod => layer_cost.len = 2

\* C14 amended: the list layer_cost of the layer being pretrained holds one mean
\* cost per completed epoch of that layer, so when the rule reads at epoch e
\* (a positive multiple of 100) it holds e >= 100 costs, all of the current
\* layer: 100 at epoch 100; every call is made with that many costs recorded.
C14_CostSamples ==
    /\ (variant = "plot" /\ pc \in {"pre_epoch", "pre_batch"}) =>
          layer_cost.len = epoch
    /\ RuleReads =>
          /\ layer_cost.len >= 2
          /\ layer_cost.len >= EpochPeriod
          /\ epoch = EpochPeriod => layer_cost.len = EpochPeriod
    /\ (variant = "plot" /\ lastPretrain.n >= 1) =>
          lastPretrain.costs.len = lastPretrain.epoch

C14_Witness ==
    /\ RuleReads
    /\ i = 1
    /\ epoch = EpochPeriod
    /\ layer_cost.len = EpochPeriod
    /\ layer_cost.last # layer_cost.prev

\* every shared variable of the stack: the W, hidden bias and visible bias of
\* each layer and the W and b of the regression layer
TrainableParameters(self) == DOMAIN self.shared

\* the parameters the fine-tuning cost is differentiated by
FinetunedParameters(self) ==
    UNION {{self.dA_layers[k].W, self.dA_layers[k].b} : k \in DOMAIN self.dA_layers}
        \cup {self.logLayer.W, self.logLayer.b}

\* C15 as stated: one call of the fine-tuning function gives every trainable
\* parameter, the visible biases included, one update.
C15_Original ==
    [][lastFinetune'.n = lastFinetune.n + 1 =>
         \A k \in TrainableParameters(sda) :
             sda'.shared[k].ver = sda.shared[k].ver + 1]_vars

\* C15 amended: one call of the fine-tuning function gives, in one step, exactly
\* one update to every layer's W and hidden bias and to the regression layer's W
\* and b, and leaves every layer's visible bias as it was.
C15_FinetuneUpdates ==
    [][lastFinetune'.n = lastFinetune.n + 1 =>
         /\ DOMAIN sda'.shared = DOMAIN sda.shared
         /\ \A k \in TrainableParameters(sda) :
               /\ sda'.shared[k].origin = sda.shared[k].origin
               /\ sda'.shared[k].ver =
                     IF k \in FinetunedParameters(sda) THEN sda.shared[k].ver + 1
                     ELSE sda.shared[k].ver
         /\ \A k \in DOMAIN sda.dA_layers :
               /\ sda.dA_layers[k].b_prime \notin FinetunedParameters(sda)
               /\ sda'.shared[sda.dA_layers[k].b_prime] =
                     sda.shared[sda.dA_layers[k].b_prime]]_vars

C15_Witness ==
    /\ sda.state = "ready"
    /\ sda.n_layers = 2
    /\ lastFinetune.n = 2
    /\ lastPretrain.n = 0
    /\ \A k \in FinetunedParameters(sda) : sda.shared[k].ver = 2
    /\ \A k \in DOMAIN sda.dA_layers : sda.shared[sda.dA_layers[k].b_prime].ver = 0

\* the chain <<input>> followed by the encodes of layers 1..n, in order
EncodeChain(input, layers, n) ==
    input \o [j \in 1..n |-> Node("sigmoid", layers[j].W, layers[j].b)]

Corruptions(v, cl) ==
    {w \in [DOMAIN v -> Range(v) \cup {0}] :
        \A k \in DOMAIN v : w[k] = v[k] \/ (w[k] = 0 /\ cl # ZeroCorruption)}

\* C17: for layer 0 the clean input of a pretraining step is the minibatch of
\* clean patches and the noisy input is a corruption of that same minibatch at
\* the layer's corruption level.
C17_Layer0Wiring ==
    (lastPretrain.n >= 1 /\ lastPretrain.layer = 0) =>
        /\ lastPretrain.clean_in.through = <<>>
        /\ lastPretrain.noisy_in.through = <<>>
        /\ lastPretrain.clean_in.base =
              Givens(lastPretrain.index, batch_size).x
        /\ lastPretrain.noisy_in.base \in
              Corruptions(lastPretrain.clean_in.base, sda.corruption_levels[1])

\* C19: while test_SdA pretrains, the W, hidden bias and visible bias of layer k
\* have had exactly one update per pretraining call of layer k and none from a
\* call of another layer, and the regression layer has had none: the layers
\* before the one being pretrained keep the values their own pretraining left.
C19_PretrainFrame ==
    (sda.state = "ready" /\ ~isTrained /\ preCount # <<>> /\ lastFinetune.n = 0) =>
        /\ \A k \in DOMAIN sda.dA_layers :
              /\ \A q \in Range(sda.dA_layers[k].params) :
                    sda.shared[q].ver = preCount[k]
              /\ sda.dA_layers[k].params =
                    <<sda.dA_layers[k].W, sda.dA_layers[k].b,
                      sda.dA_layers[k].b_prime>>
              /\ (k - 1 < i /\ pc \in {"pre_layer", "pre_epoch", "pre_batch"}) =>
                    preCount[k] = cfg.pretraining_epochs * n_train_batches
        /\ sda.shared[sda.logLayer.W].ver = 0
        /\ sda.shared[sda.logLayer.b].ver = 0

C19_Witness ==
    /\ pc = "pre_batch"
    /\ i = 1
    /\ preCount[1] > 1
    /\ preCount[2] = 1
    /\ sda.shared[sda.dA_layers[1].b_prime].ver = preCount[1]
    /\ sda.shared[sda.dA_layers[2].W].ver = 1

\* 2 to the power k
RECURSIVE Pow2(_)
Pow2(k) == IF k = 0 THEN 1 ELSE 2 * Pow2(k - 1)

\* C20: in the plot variant the first pretraining call of a layer is made with
\* the rate of the last call of the layer before it; from one call to the next
\* the rate stays or halves; the rate is always the configured pretrain_lr
\* divided by a power of two; the list layer_cost is empty when a layer starts.
C20_RateCarriesOver ==
    variant = "plot" =>
        /\ lastPretrain.n >= 2 =>
              /\ SameRate(lastPretrain.lr, lastPretrain.prev.lr)
                    \/ HalfOf(lastPretrain.lr, lastPretrain.prev.lr)
              /\ lastPretrain.layer # lastPretrain.prev.layer =>
                    SameRate(lastPretrain.lr, lastPretrain.prev.lr)
        /\ lastPretrain.n >= 1 =>
              /\ SameRate(pretrain_lr, lastPretrain.lr)
                    \/ HalfOf(pretrain_lr, lastPretrain.lr)
              /\ (pc = "pre_layer" \/ (pc = "pre_epoch" /\ epoch = 0)) =>
                    SameRate(pretrain_lr, lastPretrain.lr)
        /\ \E k \in 0..(MaxLayers * MaxPeriods) :
              SameRate(pretrain_lr,
                       Rate(cfg.pretrain_lr.num, cfg.pretrain_lr.den * Pow2(k)))
        /\ (pc = "pre_epoch" /\ epoch = 0) => layer_cost.len = 0

C20_Witness ==
    /\ variant = "plot"
    /\ lastPretrain.layer = 1
    /\ lastPretrain.epoch = 0
    /\ lastPretrain.prev.layer = 0
    /\ SameRate(lastPretrain.lr, lastPretrain.prev.lr)
    /\ ~SameRate(lastPretrain.lr, cfg.pretrain_lr)
    /\ layer_cost.len = 0

\* C21: when a run of test_SdA (SdADenoising.py) has completed, a file holding
\* its stack exists at its path, whether it trained or loaded; a second run with
\* the same arguments computes the same path, finds the file, makes no
\* pretraining and no fine-tuning call, and denoises every noisy dataset with
\* the stack the first run stored.
C21_RerunLoads ==
    /\ pc = "done" => (file.exists /\ file.data = sda)
    /\ prevRun.n = 1 =>
          /\ prevRun.file.exists
          /\ file = prevRun.file
          /\ pc # "start" => path = prevRun.path
          /\ pc \notin {"start", "check"} => isTrained
          /\ pc \in {"start", "check", "load_model", "filter_loop", "save_image",
                      "persist", "done"}
          /\ lastPretrain.n = 0 /\ lastFinetune.n = 0
          /\ pc \in {"filter_loop", "save_image", "persist", "done"} =>
                sda = prevRun.file.data
          /\ pc = "save_image" =>
                d = filterImagesSdA(noisy_datasets[dsIdx + 1], prevRun.file.data)
          /\ \A k \in DOMAIN images :
                images[k].data =
                   filterImagesSdA(noisy_datasets[k], prevRun.file.data)

C21_Witness ==
    /\ prevRun.n = 1
    /\ pc = "done"
    /\ Len(images) = NDatasets
    /\ sda.n_layers = 2
    /\ sda.shared[sda.dA_layers[2].b_prime].ver > 1
    /\ sda.shared[sda.logLayer.W].ver > 1
    /\ sda.shared[sda.dA_layers[2].b_prime].ver # sda.shared[sda.logLayer.W].ver

====
